---------------------------- MODULE Spec2Model ----------------------------
(***************************************************************************)
(* Model of gin: the SMILES reader (gin/i_o/from_smiles.py,                *)
(* smiles_to_organic_topological_molecule) and the hydrogen completer      *)
(* (gin/deterministic/hydrogen.py, add_hydrogen).                          *)
(*                                                                         *)
(* A string is a sequence of one-character strings.  A bond order is an    *)
(* exact rational <<numerator, denominator>> in lowest terms, so that the  *)
(* half bonds of the aromatic pass and the means of the conjugation pass   *)
(* are represented without rounding.  Tensors are 0-indexed in the source; *)
(* matrices here are functions over 0..n-1, index lists are sequences      *)
(* (1-indexed) whose elements are the source's 0-based indices.            *)
(***************************************************************************)
EXTENDS Integers, Sequences, FiniteSets, TLC

VARIABLES
    pc,              \* position in the reader: which stage has run last
    smiles,          \* the raw argument of the current call
    n_atoms,         \* from_smiles.py:187
    atoms,           \* from_smiles.py:324-330
    smiles_aromatic, \* from_smiles.py:253
    topology_chrs,   \* from_smiles.py:353
    topology_idxs,   \* from_smiles.py:360
    adjacency_map,   \* the tf.Variable of from_smiles.py:214
    prev_map,        \* value of adjacency_map before the stage that ran last
    returned,        \* the value returned at from_smiles.py:1280
    dummy_list,      \* module-level list, from_smiles.py:145
    calls,           \* arguments of the calls made so far, oldest first
    hpc,             \* position in add_hydrogen
    mol,             \* argument of add_hydrogen: <<atoms, adjacency_map>>
    atom_types,      \* typing.TypingGAFF(mol), hydrogen.py:56
    h_returned,      \* the value returned at hydrogen.py:375
    spc,             \* position in the search for conjugated systems
    s_map,           \* sp2_adjacency_map, from_smiles.py:938
    s_queue,         \* queue of loop_body_inner, from_smiles.py:961
    s_visited,       \* visited, from_smiles.py:953
    s_system,        \* conjugate_system of loop_body_outer, from_smiles.py:1070
    s_systems,       \* conjugate_systems, from_smiles.py:947
    s_found          \* the values conjugate_system held when the inner
                     \* loops ended (from_smiles.py:1072-1086), oldest first

reader_vars == <<pc, smiles, n_atoms, atoms, smiles_aromatic, topology_chrs,
                 topology_idxs, adjacency_map, prev_map, returned,
                 dummy_list, calls>>

hydrogen_vars == <<hpc, mol, atom_types, h_returned>>

search_vars == <<spc, s_map, s_queue, s_visited, s_system, s_systems, s_found>>

vars == <<pc, smiles, n_atoms, atoms, smiles_aromatic, topology_chrs,
          topology_idxs, adjacency_map, prev_map, returned, dummy_list,
          calls, hpc, mol, atom_types, h_returned, spc, s_map, s_queue,
          s_visited, s_system, s_systems, s_found>>

(***************************************************************************)
(* Bounds of the model.                                                    *)
(***************************************************************************)
\* longest string of the general input family
MaxLen == 5

\* most atom tokens in an input of the atoms-only family
MaxChain == 2

\* largest ring of the ring family
MaxRing == 6

\* longest string of the bond-marker input family
MaxBondLen == 7

\* longest string of the branch input family
MaxBranchLen == 9

\* most calls of the reader in one behaviour
MaxCalls == 2

\* most heavy atoms of a molecule handed to add_hydrogen
MaxHeavy == 2

\* most atoms of an input whose ring digit is written more than twice
MaxReuse == 5

\* most atoms of an aromatic carbon chain holding one other atom
MaxLower == 4

\* longest string of the family over c, s, p and =
MaxHetero == 4

\* most sibling branches written on one atom
MaxSiblings == 3

\* longest string, before its atoms are spelled out, of the family with
\* symbols of several characters
MaxTopo == 5

(***************************************************************************)
(* Exact rational arithmetic for bond orders.                              *)
(***************************************************************************)
RECURSIVE Gcd(_, _)
Gcd(a, b) == IF b = 0 THEN a ELSE Gcd(b, a % b)

Norm(num, den) ==
    IF num = 0 THEN <<0, 1>>
    ELSE LET g == Gcd(num, den) IN <<num \div g, den \div g>>

Order(k) == <<k, 1>>

Plus(v, w) == Norm(v[1] * w[2] + w[1] * v[2], v[2] * w[2])

Positive(v) == v[1] > 0

NonZero(v) == v[1] # 0

\* v < w
Less(v, w) == v[1] * w[2] < w[1] * v[2]

(***************************************************************************)
(* Sequence helpers.                                                       *)
(***************************************************************************)
Range(s) == {s[i] : i \in 1..Len(s)}

RECURSIVE SumSeq(_)
SumSeq(s) == IF s = <<>> THEN 0 ELSE Head(s) + SumSeq(Tail(s))

\* tf.boolean_mask(s, keep) on a vector: the entries whose flag is set, in order
RECURSIVE BooleanMask(_, _)
BooleanMask(s, keep) ==
    IF s = <<>> THEN <<>>
    ELSE (IF Head(keep) THEN <<Head(s)>> ELSE <<>>)
         \o BooleanMask(Tail(s), Tail(keep))

\* tf.where(flags) on a vector: the 0-based positions whose flag is set
WherePositions(flags) ==
    BooleanMask([i \in 1..Len(flags) |-> i - 1], flags)

\* tf.gather(s, idxs) with 0-based indices
Gather(s, idxs) == [k \in 1..Len(idxs) |-> s[idxs[k] + 1]]

\* tf.sort on a vector of integers, ascending
RECURSIVE SortAsc(_)
SortAsc(s) ==
    IF s = <<>> THEN <<>>
    ELSE LET m == CHOOSE k \in 1..Len(s) :
                      \A l \in 1..Len(s) : s[k] < s[l] \/ (s[k] = s[l] /\ k <= l)
             rest == [l \in 1..(Len(s) - 1) |-> IF l < m THEN s[l] ELSE s[l + 1]]
         IN  <<s[m]>> \o SortAsc(rest)

(***************************************************************************)
(* tf.strings.*                                                            *)
(***************************************************************************)
MatchAt(s, i, pat) ==
    /\ i + Len(pat) - 1 <= Len(s)
    /\ \A k \in 1..Len(pat) : s[i + k - 1] = pat[k]

\* tf.strings.regex_replace(s, p1|p2|..., repl) for an alternation of literals:
\* leftmost match first, alternatives tried in the order written, matches
\* do not overlap.
RECURSIVE RegexReplaceFrom(_, _, _, _)
RegexReplaceFrom(s, i, pats, repl) ==
    IF i > Len(s) THEN <<>>
    ELSE LET hits == {k \in 1..Len(pats) : MatchAt(s, i, pats[k])}
         IN  IF hits = {}
             THEN <<s[i]>> \o RegexReplaceFrom(s, i + 1, pats, repl)
             ELSE LET k == CHOOSE h \in hits : \A g \in hits : h <= g
                  IN  repl \o RegexReplaceFrom(s, i + Len(pats[k]), pats, repl)

RegexReplace(s, pats, repl) == RegexReplaceFrom(s, 1, pats, repl)

Whitespace == {" "}

\* tf.strings.strip
RECURSIVE StripLeft(_)
StripLeft(s) ==
    IF s # <<>> /\ Head(s) \in Whitespace THEN StripLeft(Tail(s)) ELSE s

RECURSIVE StripRight(_)
StripRight(s) ==
    IF s # <<>> /\ s[Len(s)] \in Whitespace
    THEN StripRight(SubSeq(s, 1, Len(s) - 1))
    ELSE s

Strip(s) == StripRight(StripLeft(s))

(***************************************************************************)
(* Module constants of from_smiles.py.                                     *)
(***************************************************************************)
ORGANIC_ATOMS ==
    << <<"C">>, <<"c">>, <<"N">>, <<"n">>, <<"O">>, <<"o">>, <<"S">>,
       <<"s">>, <<"P">>, <<"p">>, <<"F">>, <<"R">>, <<"L">>, <<"I">> >>

TOPOLOGY_MARKS ==
    << <<"=">>, <<"#">>, <<"(">>, <<")">>, <<"1">>, <<"2">>, <<"3">>,
       <<"4">>, <<"5">>, <<"6">>, <<"7">>, <<"8">>, <<"9">> >>

N_ATOM_COUNTER_STR ==
    TOPOLOGY_MARKS \o
    << <<"l">>, <<"r">>, <<"[">>, <<"]">>, <<"@">>, <<"H">>, <<"/">>,
       <<"\\">> >>

\* the chiral forms rewritten to a plain carbon
CHIRAL_FORMS ==
    << <<"[", "C", "@", "H", "]">>, <<"[", "C", "@", "@", "H", "]">>,
       <<"[", "C", "@", "]">>, <<"[", "C", "@", "@", "]">> >>

(***************************************************************************)
(* The normalizer: the derived strings of one call.                        *)
(***************************************************************************)
\* the count with the topology characters removed and nothing else
CountAtomsTopologyOnly(s) == Len(RegexReplace(Strip(s), TOPOLOGY_MARKS, <<>>))

\* the number of atoms, counted on the stripped raw string
CountAtoms(s) == Len(RegexReplace(Strip(s), N_ATOM_COUNTER_STR, <<>>))

\* the string after the multi-character forms are rewritten
Shorten(s) ==
    LET s1 == RegexReplace(Strip(s), << <<"B", "r">> >>, <<"R">>)
        s2 == RegexReplace(s1, << <<"C", "l">> >>, <<"L">>)
        s3 == RegexReplace(s2, CHIRAL_FORMS, <<"C">>)
        s4 == RegexReplace(s3, << <<"[", "n", "H", "]">> >>, <<"n">>)
        s5 == RegexReplace(s4, << <<"/">> >>, <<>>)
    IN  RegexReplace(s5, << <<"\\">> >>, <<>>)

AtomsOnly(s) == RegexReplace(Shorten(s), TOPOLOGY_MARKS, <<>>)

SmilesAromatic(s) ==
    RegexReplace(AtomsOnly(s), << <<"c">>, <<"n">>, <<"o">>, <<"p">> >>, <<"A">>)

\* the digit string the atom symbols are translated to, one step per element
AtomCodeString(s) ==
    LET a0 == AtomsOnly(s)
        a1 == RegexReplace(a0, << <<"C">>, <<"c">> >>, <<"0">>)
        a2 == RegexReplace(a1, << <<"N">>, <<"n">> >>, <<"1">>)
        a3 == RegexReplace(a2, << <<"O">>, <<"o">> >>, <<"2">>)
        a4 == RegexReplace(a3, << <<"S">>, <<"s">> >>, <<"3">>)
        a5 == RegexReplace(a4, << <<"P">>, <<"p">> >>, <<"4">>)
        a6 == RegexReplace(a5, << <<"F">> >>, <<"5">>)
        a7 == RegexReplace(a6, << <<"L">> >>, <<"6">>)
        a8 == RegexReplace(a7, << <<"R">> >>, <<"7">>)
    IN  RegexReplace(a8, << <<"I">> >>, <<"8">>)

\* tf.strings.to_number on one character
ToNumber(ch) ==
    CASE ch = "0" -> 0 [] ch = "1" -> 1 [] ch = "2" -> 2 [] ch = "3" -> 3
      [] ch = "4" -> 4 [] ch = "5" -> 5 [] ch = "6" -> 6 [] ch = "7" -> 7
      [] ch = "8" -> 8 [] ch = "9" -> 9

Atoms(s) ==
    LET codes == AtomCodeString(s) IN [k \in 1..Len(codes) |-> ToNumber(codes[k])]

\* every atom replaced by the filler "0", the other characters kept
SmilesTopologyOnly(s) == RegexReplace(Shorten(s), ORGANIC_ATOMS, <<"0">>)

\* 0-based positions of the topology characters in the topology-only string
TopologyPositions(s) ==
    LET t == SmilesTopologyOnly(s)
    IN  WherePositions([k \in 1..Len(t) |-> t[k] # "0"])

TopologyChrs(s) == Gather(SmilesTopologyOnly(s), TopologyPositions(s))

\* the positions lowered by one only, the running count left out
TopologyIdxsUnshifted(s) ==
    LET p == TopologyPositions(s)
    IN  [k \in 1..Len(p) |-> p[k] - 1]

\* the positions shifted onto the atoms: position - running count - 1
TopologyIdxs(s) ==
    LET p == TopologyPositions(s)
    IN  [k \in 1..Len(p) |-> p[k] - (k - 1) - 1]

(***************************************************************************)
(* Chain builder.                                                          *)
(***************************************************************************)
\* tf.eye(n)
Eye(n) == [i \in 0..(n - 1) |-> [j \in 0..(n - 1) |->
              IF i = j THEN Order(1) ELSE Order(0)]]

\* the slices exchanged, tf.eye(n + 1)[:-1, 1:]: the bonds land below the
\* diagonal
ChainMapSwapped(n) ==
    [i \in 0..(n - 1) |-> [j \in 0..(n - 1) |->
        IF i = j + 1 THEN Order(1) ELSE Order(0)]]

\* the variable of the call before taken again when its shape fits
ChainMapReused(n) ==
    IF dummy_list # <<>> /\ DOMAIN dummy_list[Len(dummy_list)] = 0..(n - 1)
    THEN dummy_list[Len(dummy_list)]
    ELSE [i \in 0..(n - 1) |-> [j \in 0..(n - 1) |->
             IF j = i + 1 THEN Order(1) ELSE Order(0)]]

\* tf.eye(n + 1)[1:, :-1]: the first row and the last column dropped
ChainMap(n) ==
    LET e == Eye(n + 1)
    IN  [i \in 0..(n - 1) |-> [j \in 0..(n - 1) |-> e[i + 1][j]]]

(***************************************************************************)
(* Matrix helpers.                                                         *)
(***************************************************************************)
\* tf.transpose(m) + m on an n x n matrix
FullMap(m, n) ==
    [i \in 0..(n - 1) |-> [j \in 0..(n - 1) |-> Plus(m[i][j], m[j][i])]]

\* tf.gather_nd(m, idxs): the entries at the listed <<row, column>> pairs
GatherNd(m, idxs) == [k \in 1..Len(idxs) |-> m[idxs[k][1]][idxs[k][2]]]

\* Variable.scatter_nd_update(idxs, vals): the listed entries overwritten,
\* in the order listed
RECURSIVE ScatterNdUpdate(_, _, _)
ScatterNdUpdate(m, idxs, vals) ==
    IF idxs = <<>> THEN m
    ELSE ScatterNdUpdate(
             [m EXCEPT ![Head(idxs)[1]][Head(idxs)[2]] = Head(vals)],
             Tail(idxs), Tail(vals))

\* the pairs <<i, j>> of 0..(rows-1) x 0..(cols-1) whose entry of the mask is
\* set, row-major: the order tf.where and tf.boolean_mask list the entries of
\* a matrix
AllPairs(rows, cols) ==
    [k \in 1..(rows * cols) |-> <<(k - 1) \div cols, (k - 1) % cols>>]

RowMajor(rows, cols, mask) ==
    LET all == AllPairs(rows, cols)
    IN  BooleanMask(all, [k \in 1..Len(all) |-> mask[all[k][1]][all[k][2]]])

(***************************************************************************)
(* Bond orders (from_smiles.py:379-431).                                   *)
(***************************************************************************)
\* the atom indices of the occurrences of one topology character
MarkIdxs(chrs, idxs, ch) ==
    Gather(idxs, WherePositions([k \in 1..Len(chrs) |-> chrs[k] = ch]))

\* the index pairs <<a, a + 1>> of a list of anchors
NextBondIdxs(anchors) ==
    [k \in 1..Len(anchors) |-> <<anchors[k], anchors[k] + 1>>]

\* the block of the double bonds copied for the triple bonds, its order kept
BondOrderStageCopied(m, chrs, idxs) ==
    LET double_bond_idxs == MarkIdxs(chrs, idxs, "=")
        triple_bond_idxs == MarkIdxs(chrs, idxs, "#")
        m2 == ScatterNdUpdate(m, NextBondIdxs(double_bond_idxs),
                  [k \in 1..Len(double_bond_idxs) |-> Order(2)])
    IN  ScatterNdUpdate(m2, NextBondIdxs(triple_bond_idxs),
            [k \in 1..Len(triple_bond_idxs) |-> Order(2)])

BondOrderStage(m, chrs, idxs) ==
    LET double_bond_idxs == MarkIdxs(chrs, idxs, "=")
        triple_bond_idxs == MarkIdxs(chrs, idxs, "#")
        m2 == ScatterNdUpdate(m, NextBondIdxs(double_bond_idxs),
                  [k \in 1..Len(double_bond_idxs) |-> Order(2)])
    IN  ScatterNdUpdate(m2, NextBondIdxs(triple_bond_idxs),
            [k \in 1..Len(triple_bond_idxs) |-> Order(3)])

(***************************************************************************)
(* Branches (from_smiles.py:444-644).                                      *)
(***************************************************************************)
\* a right bracket taking the position pushed first, not last
RECURSIVE BracketPairsFirst(_, _, _, _, _)
BracketPairsFirst(idx, bracket_queue, bracket_pairs, chrs, idxs) ==
    IF idx >= Len(chrs) THEN bracket_pairs
    ELSE IF chrs[idx + 1] = "("
         THEN BracketPairsFirst(idx + 1, Append(bracket_queue, idx),
                                bracket_pairs, chrs, idxs)
         ELSE IF chrs[idx + 1] = ")"
         THEN BracketPairsFirst(idx + 1, Tail(bracket_queue),
                  Append(bracket_pairs,
                         <<idxs[bracket_queue[1] + 1], idxs[idx + 1]>>),
                  chrs, idxs)
         ELSE BracketPairsFirst(idx + 1, bracket_queue, bracket_pairs,
                                chrs, idxs)

\* the while loop over the topology characters: a left bracket pushes its
\* position, a right bracket pops the last position pushed and records
\* <<left atom, right atom>>
RECURSIVE BracketPairs(_, _, _, _, _)
BracketPairs(idx, bracket_queue, bracket_pairs, chrs, idxs) ==
    IF idx >= Len(chrs) THEN bracket_pairs
    ELSE IF chrs[idx + 1] = "("
         THEN BracketPairs(idx + 1, Append(bracket_queue, idx),
                           bracket_pairs, chrs, idxs)
         ELSE IF chrs[idx + 1] = ")"
         THEN BracketPairs(idx + 1,
                  SubSeq(bracket_queue, 1, Len(bracket_queue) - 1),
                  Append(bracket_pairs,
                         <<idxs[bracket_queue[Len(bracket_queue)] + 1],
                           idxs[idx + 1]>>),
                  chrs, idxs)
         ELSE BracketPairs(idx + 1, bracket_queue, bracket_pairs, chrs, idxs)

\* the right brackets kept: those not standing after the last atom
RightBracketIdxs(pairs, n) ==
    BooleanMask([k \in 1..Len(pairs) |-> pairs[k][2]],
                [k \in 1..Len(pairs) |-> pairs[k][2] # n - 1])

\* the left brackets kept taken from the back: as many as right brackets
LeftBracketIdxsLast(pairs, n) ==
    SubSeq([k \in 1..Len(pairs) |-> pairs[k][1]],
           Len(pairs) - Len(RightBracketIdxs(pairs, n)) + 1, Len(pairs))

\* the left brackets kept: as many as right brackets, from the front
LeftBracketIdxs(pairs, n) ==
    SubSeq([k \in 1..Len(pairs) |-> pairs[k][1]], 1,
           Len(RightBracketIdxs(pairs, n)))

\* tf.where(left[j] - right[i] = 0): the pairs <<i, j>>, row-major
LeftRightOverlaps(left, right) ==
    RowMajor(Len(right), Len(left),
             [i \in 0..(Len(right) - 1) |-> [j \in 0..(Len(left) - 1) |->
                 left[j + 1] - right[i + 1] = 0]])

\* one iteration: the left bracket at position overlap[2] takes the value of
\* the left bracket at position overlap[1]
ProcessRightLeftOverlap(left, overlap) ==
    [k \in 1..Len(left) |->
        IF k - 1 = overlap[2] THEN left[overlap[1] + 1] ELSE left[k]]

\* the left brackets as they were recorded, no overlap resolved
ProcessOverlapsNone(idx, left, overlaps) == left

RECURSIVE ProcessOverlaps(_, _, _)
ProcessOverlaps(idx, left, overlaps) ==
    IF idx >= Len(overlaps) THEN left
    ELSE ProcessOverlaps(idx + 1,
             ProcessRightLeftOverlap(left, overlaps[idx + 1]), overlaps)

BranchStage(m, chrs, idxs, n) ==
    LET pairs == BracketPairs(0, <<>>, <<>>, chrs, idxs)
        right_bracket_idxs == RightBracketIdxs(pairs, n)
        left0 == LeftBracketIdxs(pairs, n)
        left_bracket_idxs ==
            ProcessOverlaps(0, left0, LeftRightOverlaps(left0, right_bracket_idxs))
        current_bond_idxs == NextBondIdxs(right_bracket_idxs)
        current_bond_order == GatherNd(m, current_bond_idxs)
        new_bond_idxs ==
            [k \in 1..Len(right_bracket_idxs) |->
                <<left_bracket_idxs[k], right_bracket_idxs[k] + 1>>]
        dropped == ScatterNdUpdate(m, current_bond_idxs,
                       [k \in 1..Len(current_bond_idxs) |-> Order(0)])
    IN  ScatterNdUpdate(dropped, new_bond_idxs, current_bond_order)

(***************************************************************************)
(* Rings (from_smiles.py:660-800).                                         *)
(***************************************************************************)
\* the bound of the while loop over the ring digits
max_iter == 5

connection_chrs == <<"1", "2", "3", "4", "5", "6">>

\* the pairing of standard notation, which the source does not use: each
\* occurrence closes onto the next one only
ConnectionIdxsConsecutive(chrs, idxs, connection_chr) ==
    LET c == SortAsc(MarkIdxs(chrs, idxs, connection_chr))
    IN  [k \in 1..(Len(c) - 1) |-> <<c[k], c[k + 1]>>]

\* the pairs written <<c[i], c[j]>>: the larger atom first
ConnectionIdxsSwapped(chrs, idxs, connection_chr) ==
    LET c == SortAsc(MarkIdxs(chrs, idxs, connection_chr))
        below == RowMajor(Len(c), Len(c),
                     [i \in 0..(Len(c) - 1) |-> [j \in 0..(Len(c) - 1) |->
                         i > j]])
    IN  [k \in 1..Len(below) |-> <<c[below[k][1] + 1], c[below[k][2] + 1]>>]

\* the bonds one iteration adds: the sorted atoms of the digit, every pair
\* <<c[j], c[i]>> with i > j, row-major in (i, j)
ConnectionIdxs(chrs, idxs, connection_chr) ==
    LET c == SortAsc(MarkIdxs(chrs, idxs, connection_chr))
        below == RowMajor(Len(c), Len(c),
                     [i \in 0..(Len(c) - 1) |-> [j \in 0..(Len(c) - 1) |->
                         i > j]])
    IN  [k \in 1..Len(below) |-> <<c[below[k][2] + 1], c[below[k][1] + 1]>>]

\* the while loop: it runs while idx < max_iter and the digit of idx occurs
RECURSIVE RingBonds(_, _, _, _)
RingBonds(idx, bond_idxs_to_update, chrs, idxs) ==
    IF /\ idx < max_iter
       /\ connection_chrs[idx + 1] \in Range(chrs)
       /\ Len(chrs) > 0
    THEN RingBonds(idx + 1,
             bond_idxs_to_update
                 \o ConnectionIdxs(chrs, idxs, connection_chrs[idx + 1]),
             chrs, idxs)
    ELSE bond_idxs_to_update

RingStage(m, chrs, idxs) ==
    LET bond_idxs_to_update ==
            IF Len(chrs) > 0 THEN RingBonds(0, <<>>, chrs, idxs) ELSE <<>>
    IN  ScatterNdUpdate(m, bond_idxs_to_update,
            [k \in 1..Len(bond_idxs_to_update) |-> Order(1)])

(***************************************************************************)
(* Aromaticity (from_smiles.py:809-884).                                   *)
(***************************************************************************)
AromaticIdxs(aromatic) ==
    WherePositions([k \in 1..Len(aromatic) |-> aromatic[k] = "A"])

\* the orders written back as they were read
ModifiedBondOrderKept(v) == v

\* an existing bond gains half an order
ModifiedBondOrder(v) ==
    IF ~Less(v, Order(1)) THEN Plus(v, <<1, 2>>) ELSE v

AromaticStage(m, aromatic) ==
    LET aromatic_idxs == AromaticIdxs(aromatic)
        k == Len(aromatic_idxs)
        \* the entries of the aromatic block that hold a bond
        aromatic_idxs_2d ==
            RowMajor(k, k,
                [i \in 0..(k - 1) |-> [j \in 0..(k - 1) |->
                    NonZero(m[aromatic_idxs[i + 1]][aromatic_idxs[j + 1]])]])
        current_bond_idxs ==
            [b \in 1..Len(aromatic_idxs_2d) |->
                <<aromatic_idxs[aromatic_idxs_2d[b][1] + 1],
                  aromatic_idxs[aromatic_idxs_2d[b][2] + 1]>>]
        current_bond_order == GatherNd(m, current_bond_idxs)
    IN  ScatterNdUpdate(m, current_bond_idxs,
            [b \in 1..Len(current_bond_order) |->
                ModifiedBondOrder(current_bond_order[b])])

(***************************************************************************)
(* Conjugate systems (from_smiles.py:887-1278).                            *)
(***************************************************************************)
\* the atoms on a bond of order 2 and the aromatic atoms searched, whatever
\* their element
Sp2IdxsUnfiltered(m, n, atom_codes, aromatic) ==
    LET full == FullMap(m, n)
        on_double ==
            BooleanMask([i \in 1..n |-> i - 1],
                [i \in 1..n |-> \E j \in 0..(n - 1) : full[i - 1][j] = Order(2)])
    IN  on_double \o AromaticIdxs(aromatic)

\* every carbon, nitrogen and oxygen searched, whatever its bonds
Sp2IdxsAll(m, n, atom_codes, aromatic) ==
    BooleanMask([i \in 1..n |-> i - 1],
        [i \in 1..n |-> atom_codes[i] \in {0, 1, 2}])

\* the atoms searched: those on a bond of order exactly 2, then the aromatic
\* atoms, of which the carbons, nitrogens and oxygens are kept
Sp2Idxs(m, n, atom_codes, aromatic) ==
    LET full == FullMap(m, n)
        on_double ==
            BooleanMask([i \in 1..n |-> i - 1],
                [i \in 1..n |-> \E j \in 0..(n - 1) : full[i - 1][j] = Order(2)])
        all == on_double \o AromaticIdxs(aromatic)
    IN  BooleanMask(all,
            [k \in 1..Len(all) |-> atom_codes[all[k] + 1] \in {0, 1, 2}])

\* the full adjacency map restricted to the searched atoms
Sp2AdjacencyMap(m, n, sp2_idxs) ==
    LET full == FullMap(m, n)
        k == Len(sp2_idxs)
    IN  [p \in 0..(k - 1) |-> [q \in 0..(k - 1) |->
            full[sp2_idxs[p + 1]][sp2_idxs[q + 1]]]]

\* the inner while loop: the traversal of one system from the queue.
\* The result is <<visited, conjugate_system>>.
RECURSIVE InnerLoop(_, _, _, _)
InnerLoop(queue, visited, conjugate_system, sp2_adjacency_map) ==
    IF Len(queue) = 0 THEN <<visited, conjugate_system>>
    ELSE LET idx == queue[Len(queue)]
             rest == SubSeq(queue, 1, Len(queue) - 1)
             k == Len(visited)
             is_unvisited_neighbors ==
                 [q \in 1..k |->
                     Positive(sp2_adjacency_map[idx][q - 1]) /\ ~visited[q]]
             self_is_unvisited == ~visited[idx + 1]
             neighbors_unvisited == WherePositions(is_unvisited_neighbors)
             system2 ==
                 (IF self_is_unvisited
                  THEN Append(conjugate_system, idx) ELSE conjugate_system)
                 \o neighbors_unvisited
             visited2 ==
                 [q \in 1..k |->
                     IF is_unvisited_neighbors[q] \/ q - 1 = idx
                     THEN TRUE ELSE visited[q]]
         IN  InnerLoop(rest \o neighbors_unvisited, visited2, system2,
                       sp2_adjacency_map)

\* the outer while loop: one system per iteration, started at the first
\* position not visited; a system of fewer than three entries is emptied
RECURSIVE OuterLoop(_, _, _)
OuterLoop(conjugate_systems, visited, sp2_adjacency_map) ==
    IF \A q \in 1..Len(visited) : visited[q] THEN conjugate_systems
    ELSE LET start == WherePositions([q \in 1..Len(visited) |-> ~visited[q]])[1]
             found == InnerLoop(<<start>>, visited, <<>>, sp2_adjacency_map)
             conjugate_system == IF Len(found[2]) >= 3 THEN found[2] ELSE <<>>
         IN  OuterLoop(Append(conjugate_systems, conjugate_system), found[1],
                       sp2_adjacency_map)

\* the systems found, the empty ones dropped
ConjugateSystems(sp2_adjacency_map, k) ==
    LET all == OuterLoop(<<>>, [q \in 1..k |-> FALSE], sp2_adjacency_map)
    IN  BooleanMask(all, [s \in 1..Len(all) |-> Len(all[s]) > 0])

RECURSIVE SumOrders(_)
SumOrders(s) == IF s = <<>> THEN Order(0) ELSE Plus(Head(s), SumOrders(Tail(s)))

\* the upper triangle (diagonal included) of the system's block of the full
\* map, flattened
SystemFlatten(conjugate_system, sp2_adjacency_map) ==
    LET s == Len(conjugate_system)
        upper == RowMajor(s, s,
                     [u \in 0..(s - 1) |-> [v \in 0..(s - 1) |-> u <= v]])
    IN  [b \in 1..Len(upper) |->
            sp2_adjacency_map[conjugate_system[upper[b][1] + 1]]
                             [conjugate_system[upper[b][2] + 1]]]

SystemTotalBondCount(conjugate_system, sp2_adjacency_map) ==
    LET flat == SystemFlatten(conjugate_system, sp2_adjacency_map)
    IN  Cardinality({b \in 1..Len(flat) : Positive(flat[b])})

SystemMeanBondOrder(conjugate_system, sp2_adjacency_map) ==
    LET total == SumOrders(SystemFlatten(conjugate_system, sp2_adjacency_map))
        count == SystemTotalBondCount(conjugate_system, sp2_adjacency_map)
    IN  Norm(total[1], total[2] * count)

\* the entries of the variable that hold a bond between two atoms of the
\* system, row-major over the system's own order
SystemIdxs2d(m, conjugate_system, sp2_idxs) ==
    LET system_idxs == Gather(sp2_idxs, conjugate_system)
        s == Len(system_idxs)
        held == RowMajor(s, s,
                    [u \in 0..(s - 1) |-> [v \in 0..(s - 1) |->
                        Positive(m[system_idxs[u + 1]][system_idxs[v + 1]])]])
    IN  [b \in 1..Len(held) |->
            <<system_idxs[held[b][1] + 1], system_idxs[held[b][2] + 1]>>]

\* the while loop over the systems: the entries and the orders to write
RECURSIVE ConjugateUpdates(_, _, _, _, _, _)
ConjugateUpdates(idx, bond_idxs, bond_orders, m, systems, ctx) ==
    IF idx >= Len(systems) THEN <<bond_idxs, bond_orders>>
    ELSE LET cs == systems[idx + 1]
             count == SystemTotalBondCount(cs, ctx.adj)
             mean == SystemMeanBondOrder(cs, ctx.adj)
         IN  ConjugateUpdates(idx + 1,
                 bond_idxs \o SystemIdxs2d(m, cs, ctx.sp2_idxs),
                 bond_orders \o [b \in 1..count |-> mean],
                 m, systems, ctx)

ConjugateStage(m, n, atom_codes, aromatic) ==
    LET sp2_idxs == Sp2Idxs(m, n, atom_codes, aromatic)
        sp2_adjacency_map == Sp2AdjacencyMap(m, n, sp2_idxs)
        systems == ConjugateSystems(sp2_adjacency_map, Len(sp2_idxs))
        updates == ConjugateUpdates(0, <<>>, <<>>, m, systems,
                       [adj |-> sp2_adjacency_map, sp2_idxs |-> sp2_idxs])
    IN  ScatterNdUpdate(m, updates[1], updates[2])

(***************************************************************************)
(* The inputs of the reader.  Every input is a well-formed string of the   *)
(* supported alphabet; eleven families are enumerated.                       *)
(***************************************************************************)
GeneralAtoms == {"C", "c"}

BondMarks == {"=", "#"}

GeneralDigits == {"1"}

GeneralAlphabet == GeneralAtoms \cup GeneralDigits \cup {"=", "(", ")"}

RingDigits == {"1", "2", "3", "4", "5", "6", "7", "8", "9"}

AtomChars == {"C", "c", "N", "n", "O", "o", "S", "s", "P", "p", "F", "R", "L", "I"}

CountOf(p, ch) == Cardinality({k \in 1..Len(p) : p[k] = ch})

Depth(p) == CountOf(p, "(") - CountOf(p, ")")

\* the ring digits written on the last atom of p
DigitsOnLastAtom(p) ==
    {p[k] : k \in {l \in 1..Len(p) :
                      /\ p[l] \in RingDigits
                      /\ \A q \in l..Len(p) : p[q] \in RingDigits}}

\* may the character c follow the prefix p in a well-formed string
CanFollow(p, c) ==
    IF p = <<>> THEN c \in AtomChars
    ELSE LET last == p[Len(p)]
         IN  CASE c \in AtomChars -> TRUE
               [] c \in BondMarks ->
                      last \in AtomChars \cup RingDigits \cup {"(", ")"}
               [] c = "(" -> last \in AtomChars \cup RingDigits \cup {")"}
               [] c = ")" -> /\ Depth(p) > 0
                             /\ last \in AtomChars \cup RingDigits \cup {")"}
               [] c \in RingDigits ->
                      /\ last \in AtomChars \cup RingDigits
                      /\ CountOf(p, c) < 2
                      /\ c \notin DigitsOnLastAtom(p)

\* is p a whole well-formed string: brackets balanced, every ring digit
\* written twice, the last character an atom, a digit or a right bracket
Complete(p) ==
    /\ p # <<>>
    /\ Depth(p) = 0
    /\ p[Len(p)] \in AtomChars \cup RingDigits \cup {")"}
    /\ \A d \in RingDigits : CountOf(p, d) \in {0, 2}

RECURSIVE Prefixes(_, _)
Prefixes(k, alphabet) ==
    IF k = 0 THEN {<<>>}
    ELSE {Append(p, c) : <<p, c>> \in
             {pc2 \in Prefixes(k - 1, alphabet) \X alphabet :
                 CanFollow(pc2[1], pc2[2])}}

WellFormed(maxlen, alphabet) ==
    UNION {{p \in Prefixes(k, alphabet) : Complete(p)} : k \in 1..maxlen}

\* family 1: every well-formed string of at most MaxLen characters over
\* C, c, =, the brackets and the ring digit 1
GeneralInputs == WellFormed(MaxLen, GeneralAlphabet)

BranchAlphabet == {"C", "(", ")"}

\* family 5: every well-formed string of at most MaxBranchLen characters
\* over C and the brackets
BranchInputs == WellFormed(MaxBranchLen, BranchAlphabet)

BondAlphabet == {"C", "=", "#", "(", ")"}

\* family 6: every well-formed string of at most MaxBondLen characters over
\* C, =, # and the brackets
BondInputs == WellFormed(MaxBondLen, BondAlphabet)

ChainTokens ==
    { <<"C">>, <<"N">>, <<"O">>, <<"S">>, <<"P">>, <<"F">>, <<"C", "l">>,
      <<"B", "r">>, <<"I">>, <<"[", "C", "@", "H", "]">>,
      <<"[", "C", "@", "@", "H", "]">>, <<"[", "C", "@", "]">>,
      <<"[", "C", "@", "@", "]">>, <<"c">> }

RECURSIVE TokenStrings(_)
TokenStrings(k) ==
    IF k = 0 THEN {<<>>}
    ELSE {p \o tok : <<p, tok>> \in TokenStrings(k - 1) \X ChainTokens}

\* family 2: at most MaxChain atom symbols and nothing else
ChainInputs == UNION {TokenStrings(k) : k \in 1..MaxChain}

Ring(x, d, n) == <<x, d>> \o [k \in 1..(n - 1) |-> x] \o <<d>>

\* family 3: one ring of 3..MaxRing atoms of one kind closed by one digit
RingInputs ==
    {Ring(x, d, n) : <<x, d, n>> \in
        GeneralAtoms \X Range(connection_chrs) \X (3..MaxRing)}

\* family 4: the strings the documentation names, bare and padded with blanks
Examples ==
    { <<"C", "C", "C", "C">>,
      <<"C", "=", "C">>,
      <<"C", "#", "C">>,
      <<"C", "C", "(", "C", ")", "C">>,
      <<"C", "1", "C", "C", "C", "C", "C", "1">>,
      <<"c", "1", "c", "c", "c", "c", "c", "1">>,
      <<"C", "C", "C", "(", "C", ")", "(", "C", ")", "C", "C">> }

ExampleInputs == Examples \cup {<<" ">> \o s \o <<" ", " ">> : s \in Examples}

\* a chain of n atoms x, the atoms of the set marked carrying the digit 1
RECURSIVE MarkedChain(_, _, _, _)
MarkedChain(x, n, marked, k) ==
    IF k >= n THEN <<>>
    ELSE <<x>> \o (IF k \in marked THEN <<"1">> ELSE <<>>)
             \o MarkedChain(x, n, marked, k + 1)

\* family 7: a chain of 3..MaxReuse atoms of one kind, three or more of them
\* carrying the ring digit 1
ReuseInputs ==
    {MarkedChain(x, n, marked, 0) : <<x, n, marked>> \in
        {xnm \in GeneralAtoms \X (3..MaxReuse) \X SUBSET (0..(MaxReuse - 1)) :
            /\ xnm[3] \subseteq 0..(xnm[2] - 1)
            /\ Cardinality(xnm[3]) >= 3}}

OtherAtoms == {"n", "o", "s", "p", "N", "O", "S", "P", "F", "I"}

\* family 8: a chain of 1..MaxLower atoms, all c but one
LowerInputs ==
    {[k \in 1..n |-> IF k = at THEN x ELSE "c"] : <<x, n, at>> \in
        {xna \in OtherAtoms \X (1..MaxLower) \X (1..MaxLower) :
            xna[3] <= xna[2]}}

HeteroAlphabet == {"c", "s", "p", "="}

\* family 9: every well-formed string of at most MaxHetero characters over
\* c, s, p and =
HeteroInputs == WellFormed(MaxHetero, HeteroAlphabet)

BranchBodies == {<<"C">>, <<"C", "C">>, <<"=", "C">>}

\* the branches (bodies[1])(bodies[2])...(bodies[k])
RECURSIVE SiblingBranches(_, _)
SiblingBranches(bodies, k) ==
    IF k = 0 THEN <<>>
    ELSE SiblingBranches(bodies, k - 1) \o <<"(">> \o bodies[k] \o <<")">>

\* family 10: a carbon with 2 to MaxSiblings branches written one after the
\* other, followed by nothing or by a continuation
SiblingInputs ==
    UNION {{<<"C">> \o SiblingBranches(bodies, k) \o y :
               bodies \in [1..k -> BranchBodies],
               y \in {<<>>} \cup BranchBodies} : k \in 2..MaxSiblings}

TopoAlphabet == {"L", "n", "=", "(", ")", "8"}

\* the ways the two atoms of TopoAlphabet are spelled out
Spellings ==
    { [L |-> <<"C", "l">>, n |-> <<"[", "n", "H", "]">>],
      [L |-> <<"B", "r">>, n |-> <<"/", "C">>],
      [L |-> <<"[", "C", "@", "@", "H", "]">>, n |-> <<"\\", "c">>] }

\* the string p with its atoms spelled as sp says
RECURSIVE Spell(_, _)
Spell(p, sp) ==
    IF p = <<>> THEN <<>>
    ELSE (CASE Head(p) = "L" -> sp.L
            [] Head(p) = "n" -> sp.n
            [] OTHER -> <<Head(p)>>) \o Spell(Tail(p), sp)

\* family 11: every well-formed string of at most MaxTopo symbols over two
\* atoms, =, the brackets and the ring digit 8, the atoms spelled as Cl and
\* [nH], as Br and /C, or as [C@@H] and \c
TopoInputs ==
    {Spell(p, sp) : <<p, sp>> \in WellFormed(MaxTopo, TopoAlphabet) \X Spellings}

Inputs ==
    GeneralInputs \cup ChainInputs \cup RingInputs \cup ExampleInputs
        \cup BranchInputs \cup BondInputs \cup ReuseInputs
        \cup LowerInputs \cup HeteroInputs \cup SiblingInputs
        \cup TopoInputs

(***************************************************************************)
(* The reader, one action per stage.                                       *)
(***************************************************************************)
Empty == <<>>

\* the tf.Variable is the last entry of dummy_list: an assignment to it
\* shows in both
Assign(new_map) ==
    /\ prev_map' = adjacency_map
    /\ adjacency_map' = new_map
    /\ dummy_list' = [dummy_list EXCEPT ![Len(dummy_list)] = new_map]

ReaderInit ==
    /\ pc = "idle"
    /\ smiles = Empty
    /\ n_atoms = 0
    /\ atoms = Empty
    /\ smiles_aromatic = Empty
    /\ topology_chrs = Empty
    /\ topology_idxs = Empty
    /\ adjacency_map = Empty
    /\ prev_map = Empty
    /\ returned = Empty
    /\ dummy_list = Empty
    /\ calls = Empty

HydrogenIdle ==
    /\ hpc = "idle"
    /\ mol = Empty
    /\ atom_types = Empty
    /\ h_returned = Empty

SearchIdle ==
    /\ spc = "idle"
    /\ s_map = Empty
    /\ s_queue = Empty
    /\ s_visited = Empty
    /\ s_system = Empty
    /\ s_systems = Empty
    /\ s_found = Empty

\* the arguments a call may take: any input at first, then the same input
\* again
CallInputs == IF calls = Empty THEN Inputs ELSE {calls[1]}

\* smiles_to_organic_topological_molecule(s), up to the topology index map
\* (from_smiles.py:174-368): the atom count, the chain matrix, the append to
\* dummy_list and the derived strings
Call(s) ==
    /\ pc \in {"idle", "done"}
    /\ Len(calls) < MaxCalls
    /\ s \in CallInputs
    /\ smiles' = s
    /\ calls' = Append(calls, s)
    /\ n_atoms' = CountAtoms(s)
    /\ adjacency_map' = ChainMap(CountAtoms(s))
    /\ prev_map' = Empty
    /\ dummy_list' = Append(dummy_list, ChainMap(CountAtoms(s)))
    /\ atoms' = Atoms(s)
    /\ smiles_aromatic' = SmilesAromatic(s)
    /\ topology_chrs' = TopologyChrs(s)
    /\ topology_idxs' = TopologyIdxs(s)
    /\ pc' = "chain"
    /\ UNCHANGED returned
    /\ UNCHANGED hydrogen_vars
    /\ UNCHANGED search_vars

Stage(from, to, new_map) ==
    /\ pc = from
    /\ pc' = to
    /\ Assign(new_map)
    /\ UNCHANGED <<smiles, n_atoms, atoms, smiles_aromatic, topology_chrs,
                   topology_idxs, returned, calls>>
    /\ UNCHANGED hydrogen_vars
    /\ UNCHANGED search_vars

BondOrders ==
    Stage("chain", "bond_order",
          BondOrderStage(adjacency_map, topology_chrs, topology_idxs))

Branches ==
    Stage("bond_order", "branch",
          BranchStage(adjacency_map, topology_chrs, topology_idxs, n_atoms))

Rings ==
    Stage("branch", "ring",
          RingStage(adjacency_map, topology_chrs, topology_idxs))

Aromaticity ==
    Stage("ring", "aromatic", AromaticStage(adjacency_map, smiles_aromatic))

Conjugation ==
    Stage("aromatic", "conjugate",
          ConjugateStage(adjacency_map, n_atoms, atoms, smiles_aromatic))

\* adjacency_map_full (from_smiles.py:887) returned in place of the variable
ReturnFull ==
    /\ pc = "conjugate"
    /\ pc' = "done"
    /\ returned' = Append(returned, <<atoms, FullMap(adjacency_map, n_atoms)>>)
    /\ UNCHANGED <<smiles, n_atoms, atoms, smiles_aromatic, topology_chrs,
                   topology_idxs, adjacency_map, prev_map, dummy_list, calls>>
    /\ UNCHANGED hydrogen_vars
    /\ UNCHANGED search_vars

\* return atoms, adjacency_map.read_value()
Return ==
    /\ pc = "conjugate"
    /\ pc' = "done"
    /\ returned' = Append(returned, <<atoms, adjacency_map>>)
    /\ UNCHANGED <<smiles, n_atoms, atoms, smiles_aromatic, topology_chrs,
                   topology_idxs, adjacency_map, prev_map, dummy_list, calls>>
    /\ UNCHANGED hydrogen_vars
    /\ UNCHANGED search_vars

Init == ReaderInit /\ HydrogenIdle /\ SearchIdle

Next ==
    \/ \E s \in CallInputs : Call(s)
    \/ BondOrders
    \/ Branches
    \/ Rings
    \/ Aromaticity
    \/ Conjugation
    \/ Return

Spec == Init /\ [][Next]_vars

(***************************************************************************)
(* add_hydrogen (hydrogen.py:41-375).                                      *)
(*                                                                         *)
(* The atom typer is not part of the completer: its answer is an input.    *)
(* One answer classifies every atom by one element, one hybridization and  *)
(* one count of heavy neighbours.                                          *)
(***************************************************************************)
Elements == {"C", "N", "O", "S", "P", "X"}

Hybridizations == {"sp1", "sp2", "sp3"}

HeavyCounts == {0, 1, 2, 3}

TypeClasses == [element : Elements, hybrid : Hybridizations, heavy : HeavyCounts]

\* the attributes of the typing read by add_hydrogen, for one atom
is_carbon(t) == t.element = "C"

is_nitrogen(t) == t.element = "N"

is_phosphorus(t) == t.element = "P"

is_oxygen(t) == t.element = "O"

is_sulfur(t) == t.element = "S"

is_sp1(t) == t.hybrid = "sp1"

is_sp2(t) == t.hybrid = "sp2"

is_sp3(t) == t.hybrid = "sp3"

is_connected_to_1_heavy(t) == t.heavy = 1

is_connected_to_2_heavy(t) == t.heavy = 2

is_connected_to_3_heavy(t) == t.heavy = 3

\* the heavy atoms with one hydrogen
has_one(t) ==
    \/ is_carbon(t) /\ is_sp3(t) /\ is_connected_to_3_heavy(t)
    \/ is_carbon(t) /\ is_sp2(t) /\ is_connected_to_2_heavy(t)
    \/ is_carbon(t) /\ is_sp1(t) /\ is_connected_to_1_heavy(t)
    \/ (is_nitrogen(t) \/ is_phosphorus(t))
           /\ is_sp3(t) /\ is_connected_to_2_heavy(t)
    \/ (is_nitrogen(t) \/ is_phosphorus(t))
           /\ is_sp2(t) /\ is_connected_to_1_heavy(t)
    \/ (is_oxygen(t) \/ is_sulfur(t)) /\ is_sp3(t)

\* the heavy atoms with two hydrogens
has_two(t) ==
    \/ is_carbon(t) /\ is_sp3(t) /\ is_connected_to_2_heavy(t)
    \/ is_carbon(t) /\ is_sp2(t) /\ is_connected_to_1_heavy(t)
    \/ (is_nitrogen(t) \/ is_phosphorus(t))
           /\ is_sp3(t) /\ is_connected_to_1_heavy(t)

\* the heavy atoms with three hydrogens
has_three(t) == is_carbon(t) /\ is_sp3(t) /\ is_connected_to_1_heavy(t)

one_idxs(types) == WherePositions([k \in 1..Len(types) |-> has_one(types[k])])

two_idxs(types) == WherePositions([k \in 1..Len(types) |-> has_two(types[k])])

three_idxs(types) ==
    WherePositions([k \in 1..Len(types) |-> has_three(types[k])])

\* the column appended for one hydrogen of the atom idx
new_line(n, idx) ==
    [i \in 0..(n - 1) |-> IF i = idx THEN Order(1) ELSE Order(0)]

\* hydrogen_block is the sequence of its columns
one_body(hydrogen_block, n, idx) ==
    hydrogen_block \o <<new_line(n, idx)>>

\* the line appended once
two_body_once(hydrogen_block, n, idx) ==
    hydrogen_block \o <<new_line(n, idx)>>

two_body(hydrogen_block, n, idx) ==
    hydrogen_block \o <<new_line(n, idx), new_line(n, idx)>>

three_body(hydrogen_block, n, idx) ==
    hydrogen_block \o <<new_line(n, idx), new_line(n, idx), new_line(n, idx)>>

\* the three while loops, in turn
RECURSIVE OneLoop(_, _, _, _)
OneLoop(idx, hydrogen_block, idxs, n) ==
    IF idx >= Len(idxs) THEN hydrogen_block
    ELSE OneLoop(idx + 1, one_body(hydrogen_block, n, idxs[idx + 1]), idxs, n)

RECURSIVE TwoLoop(_, _, _, _)
TwoLoop(idx, hydrogen_block, idxs, n) ==
    IF idx >= Len(idxs) THEN hydrogen_block
    ELSE TwoLoop(idx + 1, two_body(hydrogen_block, n, idxs[idx + 1]), idxs, n)

RECURSIVE ThreeLoop(_, _, _, _)
ThreeLoop(idx, hydrogen_block, idxs, n) ==
    IF idx >= Len(idxs) THEN hydrogen_block
    ELSE ThreeLoop(idx + 1, three_body(hydrogen_block, n, idxs[idx + 1]),
                   idxs, n)

\* the block after the three loops, its first (placeholder) column dropped
HydrogenBlock(types, n) ==
    LET init == <<[i \in 0..(n - 1) |-> Order(-1)]>>
        b1 == OneLoop(0, init, one_idxs(types), n)
        b2 == TwoLoop(0, b1, two_idxs(types), n)
        b3 == ThreeLoop(0, b2, three_idxs(types), n)
    IN  Tail(b3)

\* the element code of a hydrogen
HydrogenCode == 9

\* the block appended to adjacency_map_full (hydrogen.py:52)
ExtendedMapFull(m, n, hydrogen_block) ==
    LET n_hydrogens == Len(hydrogen_block)
        size == n + n_hydrogens
    IN  [i \in 0..(size - 1) |-> [j \in 0..(size - 1) |->
            IF i >= n THEN Order(0)
            ELSE IF j < n THEN FullMap(m, n)[i][j]
            ELSE hydrogen_block[j - n + 1][i]]]

\* the map with the block appended as columns, then rows of zeros
ExtendedMap(m, n, hydrogen_block) ==
    LET n_hydrogens == Len(hydrogen_block)
        size == n + n_hydrogens
    IN  [i \in 0..(size - 1) |-> [j \in 0..(size - 1) |->
            IF i >= n THEN Order(0)
            ELSE IF j < n THEN m[i][j]
            ELSE hydrogen_block[j - n + 1][i]]]

AddHydrogenResult(molecule, types) ==
    LET n == Len(molecule[1])
        hydrogen_block == HydrogenBlock(types, n)
    IN  << molecule[1] \o [k \in 1..Len(hydrogen_block) |-> HydrogenCode],
           ExtendedMap(molecule[2], n, hydrogen_block) >>

\* the element codes of the reader (from_smiles.py:264-321); X is a halogen
CodeOf(element) ==
    CASE element = "C" -> 0 [] element = "N" -> 1 [] element = "O" -> 2
      [] element = "S" -> 3 [] element = "P" -> 4 [] element = "X" -> 5

\* the map handed to add_hydrogen with a typing: a chain whose bond between
\* two sp2 atoms is double, between two sp1 atoms triple, and single otherwise
BondBetween(t, u) ==
    IF is_sp2(t) /\ is_sp2(u) THEN Order(2)
    ELSE IF is_sp1(t) /\ is_sp1(u) THEN Order(3)
    ELSE Order(1)

HydrogenMap(types) ==
    LET n == Len(types)
    IN  [i \in 0..(n - 1) |-> [j \in 0..(n - 1) |->
            IF j = i + 1 THEN BondBetween(types[i + 1], types[j + 1])
            ELSE Order(0)]]

\* the molecule of a typing: the atoms carry the codes of their elements
MoleculeOf(types) ==
    <<[k \in 1..Len(types) |-> CodeOf(types[k].element)], HydrogenMap(types)>>

ReaderIdle == ReaderInit

\* a call of add_hydrogen: a molecule of 1..MaxHeavy atoms and a typing of it
HydrogenInit ==
    /\ hpc = "called"
    /\ h_returned = Empty
    /\ \E n \in 1..MaxHeavy :
           /\ atom_types \in [1..n -> TypeClasses]
           /\ mol = MoleculeOf(atom_types)

AddHydrogen ==
    /\ hpc = "called"
    /\ hpc' = "done"
    /\ h_returned' = AddHydrogenResult(mol, atom_types)
    /\ UNCHANGED <<mol, atom_types>>
    /\ UNCHANGED reader_vars
    /\ UNCHANGED search_vars

InitH == ReaderIdle /\ HydrogenInit /\ SearchIdle

NextH == AddHydrogen

SpecH == InitH /\ [][NextH]_vars

\* the reader and the completer together: a behaviour is a session of one of
\* the two functions
InitAll == Init \/ InitH

NextAll == (HydrogenIdle /\ Next) \/ NextH

SpecAll == InitAll /\ [][NextAll]_vars

(***************************************************************************)
(* The search for conjugated systems, one loop iteration per step          *)
(* (from_smiles.py:946-1147).  A session of the search starts from any     *)
(* adjacency the gather of line 938 can give: symmetric, with an empty     *)
(* diagonal.                                                               *)
(***************************************************************************)
\* most positions searched
MaxSp2 == 4

\* the symmetric maps over 0..k-1 with an empty diagonal
Sp2Maps(k) ==
    {[p \in 0..(k - 1) |-> [q \in 0..(k - 1) |->
         IF <<p, q>> \in E \/ <<q, p>> \in E THEN Order(1) ELSE Order(0)]] :
        E \in SUBSET {pq \in (0..(k - 1)) \X (0..(k - 1)) : pq[1] < pq[2]}}

\* one iteration that flags the position dequeued and not the neighbours it
\* enqueues
loop_body_inner_self_only(queue, visited, conjugate_system, sp2_adjacency_map) ==
    LET idx == queue[Len(queue)]
        rest == SubSeq(queue, 1, Len(queue) - 1)
        k == Len(visited)
        is_unvisited_neighbors ==
            [q \in 1..k |->
                Positive(sp2_adjacency_map[idx][q - 1]) /\ ~visited[q]]
        neighbors_unvisited == WherePositions(is_unvisited_neighbors)
    IN  << rest \o neighbors_unvisited,
           [q \in 1..k |-> IF q - 1 = idx THEN TRUE ELSE visited[q]],
           (IF ~visited[idx + 1]
            THEN Append(conjugate_system, idx) ELSE conjugate_system)
               \o neighbors_unvisited >>

\* loop_body_inner: one iteration of the inner while loop.  The result is
\* <<queue, visited, conjugate_system>>.
loop_body_inner(queue, visited, conjugate_system, sp2_adjacency_map) ==
    LET idx == queue[Len(queue)]
        rest == SubSeq(queue, 1, Len(queue) - 1)
        k == Len(visited)
        is_unvisited_neighbors ==
            [q \in 1..k |->
                Positive(sp2_adjacency_map[idx][q - 1]) /\ ~visited[q]]
        self_is_unvisited == ~visited[idx + 1]
        neighbors_unvisited == WherePositions(is_unvisited_neighbors)
    IN  << rest \o neighbors_unvisited,
           [q \in 1..k |->
               IF is_unvisited_neighbors[q] \/ q - 1 = idx
               THEN TRUE ELSE visited[q]],
           (IF self_is_unvisited
            THEN Append(conjugate_system, idx) ELSE conjugate_system)
               \o neighbors_unvisited >>

SearchInit ==
    /\ spc = "outer"
    /\ \E k \in 0..MaxSp2 :
           /\ s_map \in Sp2Maps(k)
           /\ s_visited = [q \in 1..k |-> FALSE]
    /\ s_queue = Empty
    /\ s_system = Empty
    /\ s_systems = Empty
    /\ s_found = Empty

\* loop_body_outer up to its while loop: the queue holds the first position
\* not visited
OuterStart ==
    /\ spc = "outer"
    /\ \E q \in 1..Len(s_visited) : ~s_visited[q]
    /\ s_queue' = <<WherePositions([q \in 1..Len(s_visited) |-> ~s_visited[q]])[1]>>
    /\ s_system' = Empty
    /\ spc' = "inner"
    /\ UNCHANGED <<s_map, s_visited, s_systems, s_found>>
    /\ UNCHANGED <<reader_vars, hydrogen_vars>>

\* one iteration of the inner while loop, while the queue holds a position
InnerStep ==
    /\ spc = "inner"
    /\ Len(s_queue) > 0
    /\ LET r == loop_body_inner(s_queue, s_visited, s_system, s_map)
       IN  /\ s_queue' = r[1]
           /\ s_visited' = r[2]
           /\ s_system' = r[3]
    /\ UNCHANGED <<spc, s_map, s_systems, s_found>>
    /\ UNCHANGED <<reader_vars, hydrogen_vars>>

\* the rest of loop_body_outer: a system of fewer than three entries is
\* emptied, and the system is put into the list
InnerEnd ==
    /\ spc = "inner"
    /\ Len(s_queue) = 0
    /\ s_found' = Append(s_found, s_system)
    /\ s_systems' = Append(s_systems,
                        IF Len(s_system) >= 3 THEN s_system ELSE Empty)
    /\ spc' = "outer"
    /\ UNCHANGED <<s_map, s_queue, s_visited, s_system>>
    /\ UNCHANGED <<reader_vars, hydrogen_vars>>

\* the outer while loop ends when every position is visited; the empty
\* entries are dropped
OuterEnd ==
    /\ spc = "outer"
    /\ \A q \in 1..Len(s_visited) : s_visited[q]
    /\ s_systems' = BooleanMask(s_systems,
                        [s \in 1..Len(s_systems) |-> Len(s_systems[s]) > 0])
    /\ spc' = "end"
    /\ UNCHANGED <<s_map, s_queue, s_visited, s_system, s_found>>
    /\ UNCHANGED <<reader_vars, hydrogen_vars>>

InitSearch == ReaderIdle /\ HydrogenIdle /\ SearchInit

NextSearch == OuterStart \/ InnerStep \/ InnerEnd \/ OuterEnd

\* the loops are sequential code: an iteration that can run does run
SpecSearch == InitSearch /\ [][NextSearch]_vars /\ WF_vars(NextSearch)

(***************************************************************************)
(* Reading an input string as chemistry, independently of the reader: the  *)
(* vocabulary of the properties below.                                     *)
(***************************************************************************)
\* the characters that begin an atom symbol (C also begins Cl and [C@H],
\* B begins Br, n begins [nH])
AtomStarts == {"C", "N", "O", "S", "P", "F", "I", "B", "c", "n", "o", "s", "p"}

LowercaseAtoms == {"c", "n", "o", "s", "p"}

TopologyChars == {"=", "#", "(", ")", "1", "2", "3", "4", "5", "6", "7", "8", "9"}

\* the number of atoms written before position k of s
AtomsBefore(s, k) == Cardinality({l \in 1..(k - 1) : s[l] \in AtomStarts})

NumAtoms(s) == AtomsBefore(s, Len(s) + 1)

\* the index of the atom written last before position k
AtomBefore(s, k) == AtomsBefore(s, k) - 1

OnlyAtomSymbols(s) == \A k \in 1..Len(s) : s[k] \notin TopologyChars

AllUppercase(s) == \A k \in 1..Len(s) : s[k] \notin LowercaseAtoms

Positions(s, ch) == {k \in 1..Len(s) : s[k] = ch}

\* the matrix the call in progress returned last
LastMap == returned[Len(returned)][2]

LastAtoms == returned[Len(returned)][1]

\* the nonzero entries of a matrix over 0..n-1
Bonds(m, n) == {ij \in (0..(n - 1)) \X (0..(n - 1)) : NonZero(m[ij[1]][ij[2]])}

(***************************************************************************)
(* C1                                                                      *)
(***************************************************************************)
\* C1: for an input of N atom symbols, all uppercase, and nothing else, the
\* matrix returned is N x N, holds 1 at [i][i+1] for i in 0..N-2 and 0 in
\* every other entry.
C1_ChainOnly ==
    (pc = "done" /\ OnlyAtomSymbols(smiles) /\ AllUppercase(smiles)) =>
        /\ DOMAIN LastMap = 0..(NumAtoms(smiles) - 1)
        /\ \A i \in 0..(NumAtoms(smiles) - 1) :
               /\ DOMAIN LastMap[i] = 0..(NumAtoms(smiles) - 1)
               /\ \A j \in 0..(NumAtoms(smiles) - 1) :
                      LastMap[i][j] = IF j = i + 1 THEN Order(1) ELSE Order(0)

\* a chain of two atoms or more, one of them written with more than one
\* character, has been returned
C1_Witness ==
    /\ pc = "done"
    /\ OnlyAtomSymbols(smiles) /\ AllUppercase(smiles)
    /\ NumAtoms(smiles) >= 2
    /\ Len(smiles) > NumAtoms(smiles)

(***************************************************************************)
(* C2                                                                      *)
(***************************************************************************)
\* the order the markers of the string give the chain bond (i, i + 1)
MarkedOrder(s, i) ==
    IF \E k \in Positions(s, "=") : AtomBefore(s, k) = i THEN 2
    ELSE IF \E k \in Positions(s, "#") : AtomBefore(s, k) = i THEN 3
    ELSE 1

\* C2: after the bond-order stage the entry [a][a+1] is 2 for every "="
\* whose preceding atom is a, 3 for every "#", and 1 for every chain bond
\* without such a marker.
C2_BondOrders ==
    pc = "bond_order" =>
        \A i \in 0..(NumAtoms(smiles) - 2) :
            adjacency_map[i][i + 1] = Order(MarkedOrder(smiles, i))

\* the stage has run on a string with a double, a triple and a plain bond
C2_Witness ==
    /\ pc = "bond_order"
    /\ Positions(smiles, "=") # {}
    /\ Positions(smiles, "#") # {}
    /\ \E i \in 0..(NumAtoms(smiles) - 2) : MarkedOrder(smiles, i) = 1

(***************************************************************************)
(* C3                                                                      *)
(***************************************************************************)
\* the position of the left bracket that the right bracket at q closes: the
\* nearest one before q with as many left as right brackets in between
MatchingLeft(s, q) ==
    CHOOSE p \in Positions(s, "(") :
        /\ p < q
        /\ Depth(SubSeq(s, p + 1, q - 1)) = 0
        /\ \A r \in (p + 1)..(q - 1) : Depth(SubSeq(s, r, q - 1)) <= 0

\* the atom a branch opened at p hangs on: the atom written before p, or,
\* when another branch closes right before p, the atom that branch hangs on
RECURSIVE BranchAnchor(_, _)
BranchAnchor(s, p) ==
    IF p > 1 /\ s[p - 1] = ")"
    THEN BranchAnchor(s, MatchingLeft(s, p - 1))
    ELSE AtomBefore(s, p)

\* after the branch stage, for every right bracket that an atom follows,
\* with right the atom before it: the entry [right][right+1] is 0 and the
\* atom right+1 is bonded to the atom the branch hangs on with the order
\* [right][right+1] had before the stage
Rewired(s, before, after) ==
    \A q \in Positions(s, ")") :
        LET right == AtomBefore(s, q)
            left == BranchAnchor(s, MatchingLeft(s, q))
        IN  right + 1 <= NumAtoms(s) - 1 =>
                /\ after[right][right + 1] = Order(0)
                /\ after[left][right + 1] = before[right][right + 1]
                /\ before[right][right + 1] \in {Order(1), Order(2), Order(3)}

\* C3: after the branch stage every right bracket followed by an atom has
\* moved the bond (right, right+1), with its order, onto the atom its branch
\* hangs on, each right bracket closing the nearest open left bracket; for
\* "CC(C)C" atom 1 is bonded to atoms 0, 2 and 3 with order 1 and atom 2 is
\* not bonded to atom 3.
C3_Branches ==
    pc = "branch" =>
        /\ Rewired(smiles, prev_map, adjacency_map)
        /\ smiles = <<"C", "C", "(", "C", ")", "C">> =>
               /\ Bonds(adjacency_map, 4) = {<<0, 1>>, <<1, 2>>, <<1, 3>>}
               /\ \A b \in Bonds(adjacency_map, 4) :
                      adjacency_map[b[1]][b[2]] = Order(1)

\* the stage has run on a string with a branch inside a branch, both
\* followed by atoms
C3_Witness ==
    /\ pc = "branch"
    /\ \E q1, q2 \in Positions(smiles, ")") :
           /\ q1 < q2
           /\ MatchingLeft(smiles, q2) < MatchingLeft(smiles, q1)
           /\ AtomBefore(smiles, q1) < AtomBefore(smiles, q2)
           /\ AtomBefore(smiles, q2) + 1 <= NumAtoms(smiles) - 1

(***************************************************************************)
(* C4                                                                      *)
(***************************************************************************)
\* the pairs of atoms that carry the same ring digit of 1..6, the digit
\* being written exactly twice: <<lower atom, higher atom>>
RingPairs(s) ==
    {<<AtomBefore(s, kk[1]), AtomBefore(s, kk[2])>> :
        kk \in {kk \in (1..Len(s)) \X (1..Len(s)) :
                   /\ kk[1] < kk[2]
                   /\ s[kk[1]] = s[kk[2]]
                   /\ s[kk[1]] \in {"1", "2", "3", "4", "5", "6"}
                   /\ Cardinality(Positions(s, s[kk[1]])) = 2}}

\* C4: after the ring stage, every digit of 1..6 written exactly twice has
\* given a bond of order 1 between the two atoms before its occurrences.
C4_RingBonds ==
    pc = "ring" =>
        \A ab \in RingPairs(smiles) : adjacency_map[ab[1]][ab[2]] = Order(1)


\* a ring digit of 1..6 written exactly twice has been read
C4_Witness ==
    /\ pc = "ring"
    /\ RingPairs(smiles) # {}

(***************************************************************************)
(* C5                                                                      *)
(***************************************************************************)
\* is s the ring c1c...c1 of n atoms, n >= 3
IsAromaticRing(s) == \E n \in 3..Len(s) : s = Ring("c", "1", n)

\* the bonds of a ring of n atoms written in order
RingBondsOf(n) == {<<i, i + 1>> : i \in 0..(n - 2)} \cup {<<0, n - 1>>}

\* C5: for the ring c1c...c1 of n >= 3 atoms, after the aromatic stage and
\* the conjugation stage, all n ring bonds hold one value, and that value
\* lies strictly between 1 and 2.
C5_AromaticRing ==
    (pc \in {"conjugate", "done"} /\ IsAromaticRing(smiles)) =>
        LET v == adjacency_map[0][1]
        IN  /\ Less(Order(1), v)
            /\ Less(v, Order(2))
            /\ \A b \in RingBondsOf(NumAtoms(smiles)) :
                   adjacency_map[b[1]][b[2]] = v

\* benzene has been returned
C5_Witness ==
    /\ pc = "done"
    /\ smiles = Ring("c", "1", 6)
    /\ LastMap = adjacency_map

(***************************************************************************)
(* C6                                                                      *)
(***************************************************************************)
\* the atoms and the matrix add_hydrogen returned
HAtoms == h_returned[1]

HMap == h_returned[2]

\* the number of heavy atoms handed in
NumHeavy == Len(mol[1])

\* C6: for a single carbon classified sp3 with no heavy neighbour,
\* add_hydrogen returns five atoms, the last four of code 9, each bonded
\* with order 1 to the carbon and to nothing else.
C6_Methane ==
    (/\ hpc = "done"
     /\ Len(atom_types) = 1
     /\ atom_types[1] = [element |-> "C", hybrid |-> "sp3", heavy |-> 0]) =>
        /\ Len(HAtoms) = 5
        /\ \A k \in 2..5 : HAtoms[k] = 9
        /\ \A j \in 1..4 : HMap[0][j] = Order(1)
        /\ \A i \in 1..4 : \A j \in 0..4 : HMap[i][j] = Order(0)

(***************************************************************************)
(* C7                                                                      *)
(***************************************************************************)
\* the rule table, written out by element, hybridization and neighbour count
RuleTable(t) ==
    CASE t.element = "C" /\ t.hybrid = "sp3" ->
             (CASE t.heavy = 3 -> 1 [] t.heavy = 2 -> 2 [] t.heavy = 1 -> 3
                [] OTHER -> 0)
      [] t.element = "C" /\ t.hybrid = "sp2" ->
             (CASE t.heavy = 2 -> 1 [] t.heavy = 1 -> 2 [] OTHER -> 0)
      [] t.element = "C" /\ t.hybrid = "sp1" ->
             (CASE t.heavy = 1 -> 1 [] OTHER -> 0)
      [] t.element \in {"N", "P"} /\ t.hybrid = "sp3" ->
             (CASE t.heavy = 2 -> 1 [] t.heavy = 1 -> 2 [] OTHER -> 0)
      [] t.element \in {"N", "P"} /\ t.hybrid = "sp2" ->
             (CASE t.heavy = 1 -> 1 [] OTHER -> 0)
      [] t.element \in {"O", "S"} /\ t.hybrid = "sp3" -> 1
      [] OTHER -> 0

\* the hydrogens the returned matrix bonds to the heavy atom i
HydrogensOn(i) ==
    Cardinality({j \in NumHeavy..(Len(HAtoms) - 1) : NonZero(HMap[i][j])})

\* C7: every heavy atom gets the number of hydrogens of the rule table, no
\* atom satisfies two of has_one, has_two, has_three, and the atoms returned
\* are the heavy atoms plus the hydrogens of the table.
C7_RuleTable ==
    hpc = "done" =>
        /\ \A k \in 1..NumHeavy :
               /\ HydrogensOn(k - 1) = RuleTable(atom_types[k])
               /\ ~(has_one(atom_types[k]) /\ has_two(atom_types[k]))
               /\ ~(has_one(atom_types[k]) /\ has_three(atom_types[k]))
               /\ ~(has_two(atom_types[k]) /\ has_three(atom_types[k]))
        /\ Len(HAtoms) =
               NumHeavy + SumSeq([k \in 1..NumHeavy |-> RuleTable(atom_types[k])])

\* a molecule of two atoms has been completed, one atom with two hydrogens
\* and the other with three
C7_Witness ==
    /\ hpc = "done"
    /\ NumHeavy = 2
    /\ has_two(atom_types[1])
    /\ has_three(atom_types[2])
    /\ Len(HAtoms) = 7

(***************************************************************************)
(* C8                                                                      *)
(***************************************************************************)
\* C8: in the matrix returned over N heavy atoms and H hydrogens the N x N
\* block is the matrix handed in, every hydrogen column holds one nonzero
\* entry, equal to 1, in the row of a heavy atom that the rules give
\* hydrogens, the hydrogen-hydrogen block is zero, and every appended atom
\* carries the code 9.
C8_Blocks ==
    hpc = "done" =>
        LET N == NumHeavy
            T == Len(HAtoms)
        IN  /\ DOMAIN HMap = 0..(T - 1)
            /\ \A k \in 1..N : HAtoms[k] = mol[1][k]
            /\ \A i, j \in 0..(N - 1) : HMap[i][j] = mol[2][i][j]
            /\ \A j \in N..(T - 1) :
                   \E i \in 0..(N - 1) :
                       /\ HMap[i][j] = Order(1)
                       /\ RuleTable(atom_types[i + 1]) > 0
                       /\ \A r \in 0..(T - 1) : r # i => HMap[r][j] = Order(0)
            /\ \A i, j \in N..(T - 1) : HMap[i][j] = Order(0)
            /\ \A k \in (N + 1)..T : HAtoms[k] = 9

\* two bonded heavy atoms have been completed, each with hydrogens of its own
C8_Witness ==
    /\ hpc = "done"
    /\ NumHeavy = 2
    /\ NonZero(mol[2][0][1])
    /\ HydrogensOn(0) > 0
    /\ HydrogensOn(1) > 0

Symmetric(m) == \A i, j \in DOMAIN m : m[i][j] = m[j][i]

UpperTriangular(m) == \A i, j \in DOMAIN m : i >= j => m[i][j] = Order(0)

\* C10 as stated: the matrix returned by the reader and the matrix returned
\* by add_hydrogen are symmetric.
C10_Symmetric ==
    /\ \A k \in 1..Len(returned) : Symmetric(returned[k][2])
    /\ hpc = "done" => Symmetric(HMap)

\* C10 amended: the matrix returned by the reader and the matrix returned
\* by add_hydrogen are upper-triangular: the entry [i][j] is 0 whenever
\* i >= j, every bond being held once, at (lower atom, higher atom).
C10_UpperTriangular ==
    /\ \A k \in 1..Len(returned) : UpperTriangular(returned[k][2])
    /\ hpc = "done" => UpperTriangular(HMap)

\* a molecule with a ring bond has been returned
C10_Witness ==
    /\ pc = "done"
    /\ Positions(smiles, "1") # {}
    /\ \E b \in Bonds(LastMap, n_atoms) : b[2] > b[1] + 1

(***************************************************************************)
(* C11                                                                     *)
(***************************************************************************)
Stages ==
    {"chain", "bond_order", "branch", "ring", "aromatic", "conjugate", "done"}

\* C11: after every stage every nonzero entry [i][j] of the matrix has
\* i < j; in particular the diagonal is zero.
C11_UpperAtEveryStage ==
    pc \in Stages =>
        /\ UpperTriangular(adjacency_map)
        /\ \A i \in DOMAIN adjacency_map : adjacency_map[i][i] = Order(0)

\* the conjugation stage has left a fractional order on a bond between two
\* atoms that are not written next to each other
C11_Witness ==
    /\ pc = "conjugate"
    /\ \E b \in Bonds(adjacency_map, n_atoms) :
           /\ b[2] > b[1] + 1
           /\ adjacency_map[b[1]][b[2]][2] # 1

(***************************************************************************)
(* C12                                                                     *)
(***************************************************************************)
DigitNames == <<"1", "2", "3", "4", "5", "6">>

\* the atoms carrying the digit numbered d
DigitAtoms(s, d) == {AtomBefore(s, k) : k \in Positions(s, DigitNames[d])}

\* C12, for the digits the loop bound admits: after the ring stage every
\* digit d of 1..5 written on two atoms has closed its ring with a bond of
\* order 1, also when a digit below d does not occur in the string.
C12_AbsentDigitsSkipped ==
    pc = "ring" =>
        \A d \in 1..5 :
            (/\ Cardinality(Positions(smiles, DigitNames[d])) = 2
             /\ \E e \in 1..(d - 1) : Positions(smiles, DigitNames[e]) = {}) =>
                \A a, b \in DigitAtoms(smiles, d) :
                    a < b => adjacency_map[a][b] = Order(1)

\* the ring stage has run on a string that writes the digit 2 twice and the
\* digit 1 nowhere
C12_Witness ==
    /\ pc = "ring"
    /\ Cardinality(Positions(smiles, "2")) = 2
    /\ Positions(smiles, "1") = {}
    /\ Cardinality(DigitAtoms(smiles, 2)) = 2

(***************************************************************************)
(* C13                                                                     *)
(***************************************************************************)
\* C13: the ring stage lowers no bond: an entry that is nonzero before the
\* stage is not lower after it.
C13_RingKeepsBonds ==
    pc = "ring" =>
        \A i, j \in DOMAIN adjacency_map :
            NonZero(prev_map[i][j]) => ~Less(adjacency_map[i][j], prev_map[i][j])

\* the ring stage has run on two atoms that share a ring digit and a bond of
\* order 2 or 3
C13_Witness ==
    /\ pc = "ring"
    /\ \E ab \in RingPairs(smiles) : Less(Order(1), prev_map[ab[1]][ab[2]])
    /\ Positions(smiles, "1") # {}

(***************************************************************************)
(* C14                                                                     *)
(***************************************************************************)
\* the ring loop reaches the digit d: d is within max_iter and every digit
\* up to d occurs
Resolved(s, d) ==
    /\ d <= max_iter
    /\ \A e \in 1..d : Positions(s, DigitNames[e]) # {}

\* C14: after the ring stage, when a digit the stage resolves is written
\* more than twice, every pair of distinct atoms before its occurrences has
\* a bond of order 1, at (smaller index, larger index).
C14_AllPairs ==
    pc = "ring" =>
        \A d \in 1..6 :
            (Resolved(smiles, d)
                /\ Cardinality(Positions(smiles, DigitNames[d])) > 2) =>
                \A a, b \in DigitAtoms(smiles, d) :
                    a < b => adjacency_map[a][b] = Order(1)

\* the ring stage has run on a digit written on three or more atoms, two of
\* them not consecutive occurrences
C14_Witness ==
    /\ pc = "ring"
    /\ Cardinality(Positions(smiles, "1")) > 2
    /\ Cardinality(DigitAtoms(smiles, 1)) > 2
    /\ \E a, b \in DigitAtoms(smiles, 1) :
           /\ a + 1 < b
           /\ \E c \in DigitAtoms(smiles, 1) : a < c /\ c < b
           /\ adjacency_map[a][b] = Order(1)

(***************************************************************************)
(* C15                                                                     *)
(***************************************************************************)
\* the character that begins the symbol of atom a in s
WrittenAtom(s, a) ==
    s[CHOOSE k \in 1..Len(s) : s[k] \in AtomStarts /\ AtomsBefore(s, k) = a]

IsLowercase(s, a) == WrittenAtom(s, a) \in LowercaseAtoms

\* C15: after the aromatic stage every atom written c, n, o, s or p is
\* flagged aromatic, every entry that was nonzero and joins two such atoms
\* has gained 0.5, and every other entry is what it was.
C15_AromaticBoost ==
    pc = "aromatic" =>
        /\ \A a \in 0..(n_atoms - 1) :
               IsLowercase(smiles, a) => smiles_aromatic[a + 1] = "A"
        /\ \A i, j \in 0..(n_atoms - 1) :
               adjacency_map[i][j] =
                   IF /\ NonZero(prev_map[i][j])
                      /\ IsLowercase(smiles, i)
                      /\ IsLowercase(smiles, j)
                   THEN Plus(prev_map[i][j], <<1, 2>>)
                   ELSE prev_map[i][j]

\* the aromatic stage has run on a bond between a lowercase sulfur and
\* another lowercase atom
C15_Witness ==
    /\ pc = "aromatic"
    /\ \E ij \in Bonds(prev_map, n_atoms) :
           /\ IsLowercase(smiles, ij[1])
           /\ IsLowercase(smiles, ij[2])
           /\ "s" \in {WrittenAtom(smiles, ij[1]), WrittenAtom(smiles, ij[2])}

(***************************************************************************)
(* C16                                                                     *)
(***************************************************************************)
\* the order of the bond between a and b in the upper-triangular matrix m
Bond(m, a, b) == IF a < b THEN m[a][b] ELSE m[b][a]

\* the candidate atoms of the map m: carbons, nitrogens and oxygens that are
\* written in lowercase or lie on a bond of order 2
Candidates(m) ==
    {a \in 0..(n_atoms - 1) :
        /\ atoms[a + 1] \in {0, 1, 2}
        /\ \/ IsLowercase(smiles, a)
           \/ \E b \in 0..(n_atoms - 1) : b # a /\ Bond(m, a, b) = Order(2)}

\* the candidates reached from the set S over bonds of m
RECURSIVE Reach(_, _)
Reach(m, S) ==
    LET more == {b \in Candidates(m) \ S :
                    \E a \in S : NonZero(Bond(m, a, b))}
    IN  IF more = {} THEN S ELSE Reach(m, S \cup more)

\* the connected components of the candidate subgraph of m
Components(m) == {Reach(m, {a}) : a \in Candidates(m)}

\* the components that survive: three distinct atoms or more
Surviving(m) == {S \in Components(m) : Cardinality(S) >= 3}

\* the bonds of m inside the set S, each once
BondsInside(m, S) == {ab \in S \X S : ab[1] < ab[2] /\ NonZero(m[ab[1]][ab[2]])}

RECURSIVE SumBonds(_, _)
SumBonds(m, B) ==
    IF B = {} THEN Order(0)
    ELSE LET ab == CHOOSE x \in B : TRUE
         IN  Plus(m[ab[1]][ab[2]], SumBonds(m, B \ {ab}))

\* the arithmetic mean of the orders of the bonds of m inside S
MeanInside(m, S) ==
    LET total == SumBonds(m, BondsInside(m, S))
    IN  Norm(total[1], total[2] * Cardinality(BondsInside(m, S)))

\* C16: after the conjugation stage, every bond inside a surviving
\* component holds the arithmetic mean of the orders the bonds inside the
\* component had, each bond counted once.
C16_TrueMean ==
    pc = "conjugate" =>
        \A S \in Surviving(prev_map) :
            \A ab \in BondsInside(prev_map, S) :
                adjacency_map[ab[1]][ab[2]] = MeanInside(prev_map, S)

\* the conjugation stage has run on a surviving component with an atom that
\* is both written in lowercase and on a bond of order 2
C16_Witness ==
    /\ pc = "conjugate"
    /\ \E S \in Surviving(prev_map) :
           \E a \in S :
               /\ IsLowercase(smiles, a)
               /\ \E b \in 0..(n_atoms - 1) :
                      b # a /\ Bond(prev_map, a, b) = Order(2)

(***************************************************************************)
(* C17                                                                     *)
(***************************************************************************)
\* C17: after the conjugation stage, every entry between two atoms of a
\* component of fewer than three distinct atoms is what it was before the
\* stage; an isolated double bond is still 2.
C17_SmallComponentsKept ==
    pc = "conjugate" =>
        \A S \in Components(prev_map) :
            Cardinality(S) < 3 =>
                \A a, b \in S : adjacency_map[a][b] = prev_map[a][b]

\* the conjugation stage has run on a molecule of three atoms or more with
\* a component of two atoms joined by a double bond
C17_Witness ==
    /\ pc = "conjugate"
    /\ n_atoms >= 3
    /\ \E S \in Components(prev_map) :
           /\ Cardinality(S) = 2
           /\ \E ab \in BondsInside(prev_map, S) :
                  /\ prev_map[ab[1]][ab[2]] = Order(2)
                  /\ adjacency_map[ab[1]][ab[2]] = Order(2)

(***************************************************************************)
(* C18                                                                     *)
(***************************************************************************)
\* the number of times the candidate a of m is searched: twice when it is
\* both written in lowercase and on a bond of order 2 (see C16)
Listed(m, a) ==
    IF /\ IsLowercase(smiles, a)
       /\ \E b \in 0..(n_atoms - 1) : b # a /\ Bond(m, a, b) = Order(2)
    THEN 2 ELSE 1

\* the weight of the bond ab in the mean of its component
Weight(m, ab) == Listed(m, ab[1]) * Listed(m, ab[2])

RECURSIVE SumWeighted(_, _)
SumWeighted(m, B) ==
    IF B = {} THEN Order(0)
    ELSE LET ab == CHOOSE x \in B : TRUE
             v == m[ab[1]][ab[2]]
         IN  Plus(<<v[1] * Weight(m, ab), v[2]>>, SumWeighted(m, B \ {ab}))

RECURSIVE SumWeights(_, _)
SumWeights(m, B) ==
    IF B = {} THEN 0
    ELSE LET ab == CHOOSE x \in B : TRUE
         IN  Weight(m, ab) + SumWeights(m, B \ {ab})

\* the mean of the orders of the bonds of m inside S and of no other bond,
\* each bond weighted as the search lists it
MeanOfInsideOnly(m, S) ==
    LET total == SumWeighted(m, BondsInside(m, S))
    IN  Norm(total[1], total[2] * SumWeights(m, BondsInside(m, S)))

\* C18: after the conjugation stage, every entry with an endpoint outside
\* the candidate set (a sulfur, a phosphorus, a halogen, or an atom neither
\* written in lowercase nor on a bond of order 2) is what it was before the
\* stage, and the value a bond inside a component holds is a mean over the
\* bonds inside that component alone.
C18_OutsideUntouched ==
    pc = "conjugate" =>
        /\ \A i, j \in 0..(n_atoms - 1) :
               (i \notin Candidates(prev_map) \/ j \notin Candidates(prev_map)) =>
                   adjacency_map[i][j] = prev_map[i][j]
        /\ \A S \in Components(prev_map) :
               \A ab \in BondsInside(prev_map, S) :
                   adjacency_map[ab[1]][ab[2]] = MeanOfInsideOnly(prev_map, S)

\* the conjugation stage has rewritten the bonds of a component of three
\* atoms or more, one of which is bonded to an atom outside the candidate
\* set by a bond of another order than the mean
C18_Witness ==
    /\ pc = "conjugate"
    /\ \E S \in Surviving(prev_map) :
           /\ \E ab \in BondsInside(prev_map, S) :
                  adjacency_map[ab[1]][ab[2]] # prev_map[ab[1]][ab[2]]
           /\ \E a \in S : \E b \in (0..(n_atoms - 1)) \ Candidates(prev_map) :
                  /\ NonZero(Bond(prev_map, a, b))
                  /\ Bond(adjacency_map, a, b) = Bond(prev_map, a, b)
                  /\ Bond(prev_map, a, b) # MeanOfInsideOnly(prev_map, S)

(***************************************************************************)
(* C19                                                                     *)
(***************************************************************************)
\* the right brackets of s that an atom follows somewhere: the pairs kept
KeptRights(s) ==
    {q \in Positions(s, ")") : AtomBefore(s, q) + 1 <= NumAtoms(s) - 1}

\* the entries a kept pair names: the bond it cuts and the bond it adds
Named(s) ==
    UNION {{<<AtomBefore(s, q), AtomBefore(s, q) + 1>>,
            <<BranchAnchor(s, MatchingLeft(s, q)), AtomBefore(s, q) + 1>>} :
           q \in KeptRights(s)}

\* C19: when the input ends with a right bracket, after the branch stage
\* the matrix is still over 0..N-1, every other pair has moved its bond
\* onto its own anchor, and no entry but those of the other pairs has
\* changed: nothing is cut or added for the last pair.
C19_TrailingPairDiscarded ==
    (pc = "branch" /\ Len(smiles) > 0 /\ smiles[Len(smiles)] = ")") =>
        /\ DOMAIN adjacency_map = 0..(NumAtoms(smiles) - 1)
        /\ \A i \in DOMAIN adjacency_map :
               DOMAIN adjacency_map[i] = 0..(NumAtoms(smiles) - 1)
        /\ Rewired(smiles, prev_map, adjacency_map)
        /\ \A i, j \in 0..(NumAtoms(smiles) - 1) :
               <<i, j>> \notin Named(smiles) =>
                   adjacency_map[i][j] = prev_map[i][j]

\* the branch stage has run on a string that ends with a right bracket and
\* has an earlier branch, hanging on another atom, that an atom follows
C19_Witness ==
    /\ pc = "branch"
    /\ Len(smiles) > 0
    /\ smiles[Len(smiles)] = ")"
    /\ \E q \in KeptRights(smiles) :
           /\ BranchAnchor(smiles, MatchingLeft(smiles, q))
                  # BranchAnchor(smiles, MatchingLeft(smiles, Len(smiles)))
           /\ NonZero(adjacency_map[BranchAnchor(smiles, MatchingLeft(smiles, q))]
                                    [AtomBefore(smiles, q) + 1])

(***************************************************************************)
(* C20                                                                     *)
(***************************************************************************)
\* the right bracket at q closes one of two or more branches written one
\* after the other on one atom
IsSibling(s, q) ==
    \/ q < Len(s) /\ s[q + 1] = "("
    \/ MatchingLeft(s, q) > 1 /\ s[MatchingLeft(s, q) - 1] = ")"

\* the number of branches written one after the other up to the one the
\* right bracket at q closes
RECURSIVE SiblingsUpTo(_, _)
SiblingsUpTo(s, q) ==
    LET p == MatchingLeft(s, q)
    IN  IF p > 1 /\ s[p - 1] = ")" THEN 1 + SiblingsUpTo(s, p - 1) ELSE 1

\* the atom written next after the right bracket at q begins the next
\* sibling branch or the continuation
BeginsNext(s, q) ==
    /\ q < Len(s)
    /\ s[q + 1] # ")"
    /\ AtomBefore(s, q) + 1 <= NumAtoms(s) - 1

\* C20: after the branch stage, for two or more branches written one after
\* the other on the atom b: the first atom of the first branch is bonded to
\* b, and the first atom of every later branch and of the continuation is
\* bonded to b and not to the last atom of the branch before it.
C20_Siblings ==
    pc = "branch" =>
        \A q \in Positions(smiles, ")") :
            IsSibling(smiles, q) =>
                LET p == MatchingLeft(smiles, q)
                    b == BranchAnchor(smiles, p)
                    last == AtomBefore(smiles, q)
                IN  /\ (p > 1 /\ smiles[p - 1] # ")") =>
                           NonZero(adjacency_map[b][b + 1])
                    /\ BeginsNext(smiles, q) =>
                           /\ NonZero(adjacency_map[b][last + 1])
                           /\ adjacency_map[last][last + 1] = Order(0)

\* the branch stage has run on three branches or more written one after
\* the other and followed by a continuation
C20_Witness ==
    /\ pc = "branch"
    /\ \E q \in Positions(smiles, ")") :
           /\ SiblingsUpTo(smiles, q) >= 3
           /\ BeginsNext(smiles, q)
           /\ smiles[q + 1] # "("
           /\ NonZero(adjacency_map[BranchAnchor(smiles, MatchingLeft(smiles, q))]
                                    [AtomBefore(smiles, q) + 1])

(***************************************************************************)
(* C21                                                                     *)
(***************************************************************************)
\* the positions of the topology characters of s, in the order written
TopoPositions(s) ==
    BooleanMask([k \in 1..Len(s) |-> k],
                [k \in 1..Len(s) |-> s[k] \in TopologyChars])

HighDigits == {"7", "8", "9"}

\* the atoms written before the occurrences of the character ch
AtomsOf(s, ch) == {AtomBefore(s, k) : k \in Positions(s, ch)}

\* C21: the topology characters read are those of the input in the order
\* written, each mapped to the index of the atom written last before it; and
\* the ring stage changes no entry between two atoms that share a digit 7,
\* 8 or 9 and no digit 1 to 6.
C21_TopologyIdxs ==
    pc \in Stages =>
        LET pos == TopoPositions(smiles)
        IN  /\ Len(topology_chrs) = Len(pos)
            /\ Len(topology_idxs) = Len(pos)
            /\ \A k \in 1..Len(pos) :
                   /\ topology_chrs[k] = smiles[pos[k]]
                   /\ topology_idxs[k] = AtomBefore(smiles, pos[k])
            /\ pc = "ring" =>
                   \A d \in HighDigits : \A a, b \in AtomsOf(smiles, d) :
                       (a < b /\ \A e \in 1..6 :
                           ~({a, b} \subseteq DigitAtoms(smiles, e))) =>
                           adjacency_map[a][b] = prev_map[a][b]

\* the ring stage has run on a string with an atom spelled with several
\* characters, a digit 8 on two atoms not written next to each other, and a
\* topology character on a later atom than an 8 before it
C21_Witness ==
    /\ pc = "ring"
    /\ \E k \in 1..Len(smiles) : smiles[k] \in {"l", "r", "]"}
    /\ \E a, b \in AtomsOf(smiles, "8") :
           a + 1 < b /\ adjacency_map[a][b] = Order(0)
    /\ \E j, k \in 1..Len(topology_chrs) :
           /\ j < k
           /\ topology_chrs[j] = "8"
           /\ topology_idxs[k] > topology_idxs[j]

(***************************************************************************)
(* C22                                                                     *)
(***************************************************************************)
\* C22: when the string has been read, the atom count taken from the raw
\* string is the number of atoms written, the length of the atoms-only
\* stream and the number of fillers of the topology-only stream; at every
\* stage the matrix has that many rows and the atom sequence that many
\* entries, also when returned.
C22_AtomCount ==
    pc \in Stages =>
        /\ pc = "chain" =>
               /\ n_atoms = NumAtoms(smiles)
               /\ n_atoms = Len(AtomsOnly(smiles))
               /\ n_atoms = CountOf(SmilesTopologyOnly(smiles), "0")
        /\ Len(atoms) = n_atoms
        /\ DOMAIN adjacency_map = 0..(n_atoms - 1)
        /\ pc = "done" =>
               /\ Len(LastAtoms) = n_atoms
               /\ DOMAIN LastMap = 0..(n_atoms - 1)

\* a call has returned for a string with an atom spelled with several
\* characters, a marker / or \, and a topology character
C22_Witness ==
    /\ pc = "done"
    /\ \E k \in 1..Len(smiles) : smiles[k] \in {"l", "r", "]"}
    /\ \E k \in 1..Len(smiles) : smiles[k] \in {"/", "\\"}
    /\ \E k \in 1..Len(smiles) : smiles[k] \in TopologyChars
    /\ Len(LastAtoms) >= 3

(***************************************************************************)
(* C23                                                                     *)
(***************************************************************************)
HasNoDigit(s) == \A k \in 1..Len(s) : s[k] \notin RingDigits

\* the atoms of lower index bonded to the atom j in m
LowerNeighbours(m, j) == {i \in 0..(j - 1) : NonZero(m[i][j])}

\* C23: for an input with brackets and no ring digit, the graph after the
\* branch stage is a tree written in order: N - 1 bonds, and every atom but
\* the first bonded to exactly one atom of lower index.
C23_Tree ==
    (pc = "branch" /\ Positions(smiles, "(") # {} /\ HasNoDigit(smiles)) =>
        /\ Cardinality(Bonds(adjacency_map, n_atoms)) = n_atoms - 1
        /\ \A j \in 1..(n_atoms - 1) :
               Cardinality(LowerNeighbours(adjacency_map, j)) = 1

\* the branch stage has run on a string without digits where an atom
\* follows two right brackets written one after the other
C23_Witness ==
    /\ pc = "branch"
    /\ HasNoDigit(smiles)
    /\ \E q \in Positions(smiles, ")") :
           /\ q + 1 < Len(smiles)
           /\ smiles[q + 1] = ")"
           /\ smiles[q + 2] \in AtomStarts

(***************************************************************************)
(* C24                                                                     *)
(***************************************************************************)
\* the positions reached from the set S over the nonzero entries of m
RECURSIVE Connected(_, _)
Connected(m, S) ==
    LET more == {q \in DOMAIN m \ S : \E p \in S : NonZero(m[p][q])}
    IN  IF more = {} THEN S ELSE Connected(m, S \cup more)

\* the places <<i, j>> of the systems found that hold the position q
PlacesOf(q) ==
    {ij \in (1..Len(s_found)) \X (1..Len(s_visited)) :
        ij[2] <= Len(s_found[ij[1]]) /\ s_found[ij[1]][ij[2]] = q}

\* every position is visited and stands at exactly one place of exactly one
\* system found, and every system found is a whole connected set
SearchPartition ==
    /\ s_queue = Empty
    /\ \A q \in 1..Len(s_visited) : s_visited[q]
    /\ \A q \in DOMAIN s_map : Cardinality(PlacesOf(q)) = 1
    /\ \A i \in 1..Len(s_found) :
           /\ Len(s_found[i]) > 0
           /\ Range(s_found[i]) = Connected(s_map, {s_found[i][1]})

\* C24: the search ends, and when it has ended every position has been
\* placed in exactly one system found, each system a maximal set connected
\* through nonzero entries.
C24_SearchTerminates ==
    /\ <>(spc = "end")
    /\ [](spc = "end" => SearchPartition)

\* the search has ended on a map with a system of three positions or more
\* and a smaller one, and the systems kept are those the conjugation stage
\* computes
C24_Witness ==
    /\ spc = "end"
    /\ \E i, j \in 1..Len(s_found) :
           Len(s_found[i]) >= 3 /\ Len(s_found[j]) < 3
    /\ s_systems = ConjugateSystems(s_map, Len(s_visited))

=============================================================================
